---- MODULE Spec2Model ----
(***************************************************************************)
(* Model of src/DigitalGovernanceFramework.jsx: the compliance evaluator   *)
(* (checkCompliance), the periodic scan (runDigitalScan driven by          *)
(* setInterval), the Firestore incident collection and the onSnapshot      *)
(* feed handler of the App component.                                      *)
(*                                                                         *)
(* Metric values are fractions in the source; here they are integers in    *)
(* thousandths (0.5 is 500), so that (x * 100).toFixed(0) is a real        *)
(* rounding.  A React state update and the re-render and effects that      *)
(* follow it are one step: the render task is queued when the state is set *)
(* and the interval is re-armed for a full period by the effect.           *)
(***************************************************************************)
EXTENDS Integers, Sequences, FiniteSets, TLC

\* ---- bounds of the model ----
MaxTicks == 4
MaxExternal == 2

\* ---- program constants (thousandths) ----
maxVolume == 800
maxDensity == 750
InitWasteVolume == 500
InitTrafficDensity == 400
UnitMax == 1000

\* Math.random() * 0.2 - 0.08 lies in [-0.08, 0.12); Math.random() * 0.3 - 0.15 in [-0.15, 0.15)
WasteDeltas == {-80, 110}
TrafficDeltas == {-150, 140}

VARIABLES phase, firebaseConfig, db, authState, userId, isAuthReady,
          governanceData, incidents, systemStatus, isSimulationRunning,
          subscription, snapshot, timer, intervals, store, inflight, tickCount,
          failedTicks, lastEvaluation

vars == <<phase, firebaseConfig, db, authState, userId, isAuthReady,
          governanceData, incidents, systemStatus, isSimulationRunning,
          subscription, snapshot, timer, intervals, store, inflight, tickCount,
          failedTicks, lastEvaluation>>

\* ---- helpers ----
Min(a, b) == IF a < b THEN a ELSE b

Abs(x) == IF x < 0 THEN 0 - x ELSE x

\* (v * 100).toFixed(0) for v given in thousandths: nearest integer percent, halves away from zero
ToFixed0(pm) == IF pm < 0 THEN 0 - ((Abs(pm) + 5) \div 10) ELSE (pm + 5) \div 10

\* useMemo of useFirebase: the collection reference exists once db and userId are set
incidentCollectionRef == db /\ userId # "null"

\* ---- the compliance evaluator ----
\* the waste incident with the fraction itself formatted, not the percentage
WasteIncidentOfFraction(data) ==
    [type |-> "Sampah", area |-> "Cihampelas", description |-> (data.wasteVolume + 500) \div 1000,
     status |-> "Pelanggaran Berat", timestamp |-> "serverTimestamp"]

WasteIncident(data) ==
    [type |-> "Sampah", area |-> "Cihampelas", description |-> ToFixed0(data.wasteVolume),
     status |-> "Pelanggaran Berat", timestamp |-> "serverTimestamp"]

TrafficIncident(data) ==
    [type |-> "Lalu Lintas", area |-> "Dago/Pasteur (Simulasi)", description |-> ToFixed0(data.trafficDensity),
     status |-> "Kritis", timestamp |-> "serverTimestamp"]

\* the evaluator with the thresholds included (>= for >)
checkComplianceInclusive(data) ==
    LET waste == data.wasteVolume >= maxVolume
        traffic == data.trafficDensity >= maxDensity
    IN [isOverallCompliant |-> ~waste /\ ~traffic,
        incidents |-> (IF waste THEN <<WasteIncident(data)>> ELSE <<>>)
                      \o (IF traffic THEN <<TrafficIncident(data)>> ELSE <<>>)]

checkCompliance(data) ==
    LET waste == data.wasteVolume > maxVolume
        traffic == data.trafficDensity > maxDensity
    IN [isOverallCompliant |-> ~waste /\ ~traffic,
        incidents |-> (IF waste THEN <<WasteIncident(data)>> ELSE <<>>)
                      \o (IF traffic THEN <<TrafficIncident(data)>> ELSE <<>>)]

\* const { timestamp: clientTimestamp, ...incidentToSave } = incident
incidentToSave(incident) ==
    [type |-> incident.type, area |-> incident.area,
     description |-> incident.description, status |-> incident.status]

\* ---- the incident collection (Firestore) ----
\* A stored timestamp field: a server sentinel not yet resolved, or a resolved instant.
\* Instants are counted in seconds of one day.
PendingTimestamp == [resolved |-> FALSE, time |-> 0]

Instants == {1, 2}

ResolvedTimestamps == {[resolved |-> TRUE, time |-> t] : t \in Instants}

\* addDoc(incidentCollectionRef, incidentToSave): the document a scan tick writes
ScanDoc(id, tick, saved) == [id |-> id, by |-> tick, data |-> saved]

\* a document written by another writer of the collection, with a timestamp field
OtherDoc(id, ts) ==
    [id |-> id, by |-> 0,
     data |-> [type |-> "Sampah", area |-> "Cihampelas", description |-> 0,
               status |-> "Pelanggaran Berat", timestamp |-> ts]]

\* what the collection can hold when the component mounts: documents of other
\* writers (the collection outlives the session), each with a timestamp field;
\* the server gives different documents different instants, in any delivery order
PersistedCollections ==
    UNION {{tss \in [1..n -> ResolvedTimestamps \cup {PendingTimestamp}] :
                \A i, j \in 1..n : tss[i] = tss[j] => i = j} : n \in 0..MaxExternal}

InitialStore(tss) == [i \in 1..Len(tss) |-> OtherDoc(i, tss[i])]

\* query(incidentCollectionRef) has no orderBy: the order in which the documents are
\* delivered is unrelated to their timestamps.  The sequence is the delivery order.
AddDoc(docs, d) == Append(docs, d)

\* ---- the onSnapshot handler ----
NotAvailable == [text |-> "N/A", date |-> 0, time |-> 0]

\* Date.prototype.toLocaleTimeString: the time of day only, the date is dropped
toLocaleTimeString(ts) == [text |-> "time", date |-> 0, time |-> ts.time]

\* doc.data().timestamp?.toDate ? doc.data().timestamp.toDate().toLocaleTimeString() : 'N/A'
DisplayTimestamp(data) ==
    IF "timestamp" \in DOMAIN data /\ data.timestamp.resolved
    THEN toLocaleTimeString(data.timestamp)
    ELSE NotAvailable

\* a JavaScript number: NaN, or a value
NaN == [nan |-> TRUE, v |-> 0]

Num(n) == [nan |-> FALSE, v |-> n]

\* new Date(string): a string with no date part ('N/A', or a bare time of day) is an Invalid Date
NewDate(str) ==
    IF str.text = "N/A" \/ str.date = 0 THEN NaN ELSE Num(str.date * (Cardinality(Instants) + 1) + str.time)

\* Date - Date: NaN as soon as one side is an Invalid Date
DateMinus(x, y) == IF x.nan \/ y.nan THEN NaN ELSE Num(x.v - y.v)

\* (a, b) => new Date(b.timestamp) - new Date(a.timestamp)
compareFn(a, b) == DateMinus(NewDate(b.timestamp), NewDate(a.timestamp))

\* SortCompare of Array.prototype.sort: a NaN result of the comparator counts as +0
SortCompare(a, b) == LET r == compareFn(a, b) IN IF r.nan THEN 0 ELSE r.v

\* Array.prototype.sort is stable: x goes before the first element that must follow it
RECURSIVE InsertSorted(_, _)
InsertSorted(x, s) ==
    IF s = <<>> THEN <<x>>
    ELSE IF SortCompare(Head(s), x) > 0 THEN <<x>> \o s
    ELSE <<Head(s)>> \o InsertSorted(x, Tail(s))

RECURSIVE ArraySort(_)
ArraySort(s) ==
    IF s = <<>> THEN <<>>
    ELSE InsertSorted(s[Len(s)], ArraySort(SubSeq(s, 1, Len(s) - 1)))

\* the map with the last document of the delivery left out
fetchedIncidentsButLast(docs) ==
    [i \in 1..(Len(docs) - 1) |->
        [id |-> docs[i].id, data |-> docs[i].data, timestamp |-> DisplayTimestamp(docs[i].data)]]

\* snapshot.docs.map(doc => ({id: doc.id, ...doc.data(), timestamp: ...}))
fetchedIncidents(docs) ==
    [i \in 1..Len(docs) |->
        [id |-> docs[i].id, data |-> docs[i].data, timestamp |-> DisplayTimestamp(docs[i].data)]]

\* the feed the handler hands to setIncidents
onSnapshotNext(docs) == ArraySort(fetchedIncidents(docs))

\* ---- React state, effects and handlers ----
InitialGovernanceData == [wasteVolume |-> InitWasteVolume, trafficDensity |-> InitTrafficDensity]

NoTimer == [armed |-> FALSE, running |-> FALSE, ref |-> FALSE, data |-> InitialGovernanceData]

\* an interval effect that arms the timer whatever isSimulationRunning and isAuthReady are
ScanIntervalEffectUnguarded(running, ready, ref, data) ==
    [armed |-> TRUE, running |-> running, ref |-> ref, data |-> data]

\* an interval effect whose callback keeps the snapshot of the first render
ScanIntervalEffectStale(running, ready, ref, data) ==
    IF running /\ ready
    THEN [armed |-> TRUE, running |-> running, ref |-> ref, data |-> InitialGovernanceData]
    ELSE NoTimer

\* the interval effect: setInterval(runDigitalScan, 4000) with the closure of the
\* current render, armed only while isSimulationRunning && isAuthReady
ScanIntervalEffect(running, ready, ref, data) ==
    IF running /\ ready
    THEN [armed |-> TRUE, running |-> running, ref |-> ref, data |-> data]
    ELSE NoTimer

\* a cleanup that leaves the old interval armed
KeepInterval(handles, handle) == handles

\* the interval effect's cleanup: clearInterval(interval)
ClearInterval(handles, handle) == handles \ {handle}

\* the armed intervals after a commit: when the effect's dependencies changed, its
\* cleanup runs for the interval of the previous run and the effect arms the new one
RerunIntervalEffect(handles, old, new) ==
    IF new = old THEN handles
    ELSE ClearInterval(handles, old) \cup (IF new.armed THEN {new} ELSE {})

\* the status the subscription effect sets when it runs
SubscriptionEffectStatus(ready, ref) ==
    IF ~ready \/ ~ref THEN "Memuat Database..." ELSE "Memantau"

Init ==
    /\ phase = "rendered"
    /\ firebaseConfig \in {"present", "missing"}
    /\ db = FALSE
    /\ authState = "none"
    /\ userId = "null"
    /\ isAuthReady = FALSE
    /\ governanceData = InitialGovernanceData
    /\ incidents = <<>>
    /\ systemStatus = "Initializing..."
    /\ isSimulationRunning = FALSE
    /\ subscription = "none"
    /\ snapshot = [delivered |-> FALSE, docs |-> <<>>]
    /\ timer = NoTimer
    /\ intervals = {}
    /\ \E tss \in PersistedCollections : store = InitialStore(tss)
    /\ inflight = {}
    /\ tickCount = 0
    /\ failedTicks = {}
    /\ lastEvaluation = [tick |-> 0, isOverallCompliant |-> TRUE, incidents |-> <<>>]

\* the effects of the first commit: useFirebase's effect, the subscription effect
\* (not ready yet) and the interval effect (nothing to arm)
Mount ==
    /\ phase = "rendered"
    /\ phase' = "mounted"
    /\ IF firebaseConfig = "missing"
       THEN UNCHANGED <<db, authState>>
       ELSE db' = TRUE /\ authState' = "listening"
    /\ systemStatus' = SubscriptionEffectStatus(isAuthReady, incidentCollectionRef)
    /\ timer' = ScanIntervalEffect(isSimulationRunning, isAuthReady,
                                   incidentCollectionRef, governanceData)
    /\ intervals' = RerunIntervalEffect(intervals, timer, timer')
    /\ UNCHANGED <<firebaseConfig, userId, isAuthReady, governanceData, incidents,
                   isSimulationRunning, subscription, snapshot, store, inflight,
                   tickCount, failedTicks, lastEvaluation>>

\* onAuthStateChanged callback, sign-in succeeded: setUserId, setIsAuthReady(true);
\* the subscription effect then subscribes and starts the simulation, and the
\* interval effect arms the timer
AuthSignedIn ==
    /\ phase = "mounted"
    /\ authState = "listening"
    /\ authState' = "signedIn"
    /\ userId' = "uid"
    /\ isAuthReady' = TRUE
    /\ systemStatus' = SubscriptionEffectStatus(TRUE, db)
    /\ isSimulationRunning' = TRUE
    /\ subscription' = "active"
    /\ timer' = ScanIntervalEffect(TRUE, TRUE, db, governanceData)
    /\ intervals' = RerunIntervalEffect(intervals, timer, timer')
    /\ UNCHANGED <<phase, firebaseConfig, db, governanceData, incidents, snapshot, store,
                   inflight, tickCount, failedTicks, lastEvaluation>>

\* onAuthStateChanged callback, signInAnonymously rejected: the callback ends
\* before setUserId and setIsAuthReady
AuthFailed ==
    /\ phase = "mounted"
    /\ authState = "listening"
    /\ authState' = "failed"
    /\ UNCHANGED <<phase, firebaseConfig, db, userId, isAuthReady, governanceData, incidents,
                   systemStatus, isSimulationRunning, subscription, snapshot, timer, intervals, store,
                   inflight, tickCount, failedTicks, lastEvaluation>>

\* Math.min(1.0, prev + perturbation) for both metrics
NextGovernanceData(data, dw, dt) ==
    [wasteVolume |-> Min(UnitMax, data.wasteVolume + dw),
     trafficDensity |-> Min(UnitMax, data.trafficDensity + dt)]

\* a scan that reports Memantau for a tick without incidents
ScanStatusMonitoring(newIncidents) ==
    IF Len(newIncidents) > 0 THEN "Insiden Terdeteksi" ELSE "Memantau"

\* setSystemStatus of runDigitalScan after the evaluation
ScanStatus(newIncidents) ==
    IF Len(newIncidents) > 0 THEN "Insiden Terdeteksi" ELSE "Komplian Penuh"

\* the timer fires: runDigitalScan, in the closure the timer holds, up to its first
\* await; the state updates re-render and the interval effect re-arms the timer
Tick ==
    /\ phase = "mounted"
    /\ tickCount < MaxTicks
    /\ \E handle \in intervals, dw \in WasteDeltas, dt \in TrafficDeltas :
        LET newData == NextGovernanceData(handle.data, dw, dt)
            result == checkCompliance(newData)
        IN /\ handle.running /\ handle.ref
           /\ governanceData' = newData
           /\ lastEvaluation' = [tick |-> tickCount + 1,
                                 isOverallCompliant |-> result.isOverallCompliant,
                                 incidents |-> result.incidents]
           /\ systemStatus' = ScanStatus(result.incidents)
           /\ inflight' = IF Len(result.incidents) > 0
                          THEN inflight \cup {[tick |-> tickCount + 1, drafts |-> result.incidents]}
                          ELSE inflight
           /\ timer' = ScanIntervalEffect(isSimulationRunning, isAuthReady,
                                          incidentCollectionRef, newData)
           /\ intervals' = RerunIntervalEffect(intervals, timer, timer')
    /\ tickCount' = tickCount + 1
    /\ UNCHANGED <<phase, firebaseConfig, db, authState, userId, isAuthReady, incidents,
                   isSimulationRunning, subscription, snapshot, store, failedTicks>>

\* what is left of a tick's for-loop once the awaited addDoc has resolved
AfterAppend(seq) ==
    IF Len(seq.drafts) > 1 THEN {[tick |-> seq.tick, drafts |-> Tail(seq.drafts)]} ELSE {}

\* the awaited addDoc of a tick resolves: the document is in the collection and the
\* loop issues the next addDoc, if any
AppendSucceeds ==
    \E seq \in inflight :
        /\ store' = AddDoc(store, ScanDoc(Len(store) + 1, seq.tick, incidentToSave(Head(seq.drafts))))
        /\ inflight' = (inflight \ {seq}) \cup AfterAppend(seq)
        /\ UNCHANGED <<phase, firebaseConfig, db, authState, userId, isAuthReady,
                       governanceData, incidents, systemStatus, isSimulationRunning,
                       subscription, snapshot, timer, intervals, tickCount, failedTicks, lastEvaluation>>

\* a catch block that also stops the simulation (the interval effect then clears the timer)
AppendFailsStopsScan ==
    \E seq \in inflight :
        /\ inflight' = inflight \ {seq}
        /\ failedTicks' = failedTicks \cup {seq}
        /\ isSimulationRunning' = IF phase = "mounted" THEN FALSE ELSE isSimulationRunning
        /\ timer' = NoTimer
        /\ intervals' = {}
        /\ UNCHANGED <<phase, firebaseConfig, db, authState, userId, isAuthReady,
                       governanceData, incidents, systemStatus, subscription, snapshot,
                       store, tickCount, lastEvaluation>>

\* a try/catch inside the for-loop: the loop goes on with the next draft
AppendFailsContinues ==
    \E seq \in inflight :
        /\ inflight' = (inflight \ {seq}) \cup AfterAppend(seq)
        /\ failedTicks' = failedTicks \cup {seq}
        /\ UNCHANGED <<phase, firebaseConfig, db, authState, userId, isAuthReady,
                       governanceData, incidents, systemStatus, isSimulationRunning,
                       subscription, snapshot, timer, intervals, store, tickCount,
                       lastEvaluation>>

\* the awaited addDoc rejects: the catch block logs and the tick's loop is over
AppendFails ==
    \E seq \in inflight :
        /\ inflight' = inflight \ {seq}
        /\ failedTicks' = failedTicks \cup {seq}
        /\ UNCHANGED <<phase, firebaseConfig, db, authState, userId, isAuthReady,
                       governanceData, incidents, systemStatus, isSimulationRunning,
                       subscription, snapshot, timer, intervals, store, tickCount, lastEvaluation>>

\* onSnapshot success callback: the full current set of documents is delivered
SnapshotDelivered ==
    /\ phase = "mounted"
    /\ subscription = "active"
    /\ ~snapshot.delivered \/ snapshot.docs # store
    /\ snapshot' = [delivered |-> TRUE, docs |-> store]
    /\ incidents' = onSnapshotNext(store)
    /\ UNCHANGED <<phase, firebaseConfig, db, authState, userId, isAuthReady,
                   governanceData, systemStatus, isSimulationRunning, subscription,
                   timer, intervals, store, inflight, tickCount, failedTicks, lastEvaluation>>

\* an error callback that also clears the feed
SnapshotErrorClearsFeed ==
    /\ phase = "mounted"
    /\ subscription = "active"
    /\ subscription' = "errored"
    /\ systemStatus' = "DB Error"
    /\ incidents' = <<>>
    /\ UNCHANGED <<phase, firebaseConfig, db, authState, userId, isAuthReady,
                   governanceData, isSimulationRunning, snapshot, timer, intervals,
                   store, inflight, tickCount, failedTicks, lastEvaluation>>

\* onSnapshot error callback: the listener is dead afterwards
SnapshotError ==
    /\ phase = "mounted"
    /\ subscription = "active"
    /\ subscription' = "errored"
    /\ systemStatus' = "DB Error"
    /\ UNCHANGED <<phase, firebaseConfig, db, authState, userId, isAuthReady,
                   governanceData, incidents, isSimulationRunning, snapshot, timer, intervals,
                   store, inflight, tickCount, failedTicks, lastEvaluation>>

\* an unmount that also drops the appends in flight
UnmountAbortsAppends ==
    /\ phase = "mounted"
    /\ phase' = "unmounted"
    /\ timer' = NoTimer
    /\ intervals' = ClearInterval(intervals, timer)
    /\ inflight' = {}
    /\ subscription' = IF subscription = "none" THEN "none" ELSE "closed"
    /\ UNCHANGED <<firebaseConfig, db, authState, userId, isAuthReady, governanceData,
                   incidents, systemStatus, isSimulationRunning, snapshot, store,
                   tickCount, failedTicks, lastEvaluation>>

\* the component unmounts: the effects' cleanups run (clearInterval, unsubscribe)
Unmount ==
    /\ phase = "mounted"
    /\ phase' = "unmounted"
    /\ timer' = NoTimer
    /\ intervals' = ClearInterval(intervals, timer)
    /\ subscription' = IF subscription = "none" THEN "none" ELSE "closed"
    /\ UNCHANGED <<firebaseConfig, db, authState, userId, isAuthReady, governanceData,
                   incidents, systemStatus, isSimulationRunning, snapshot, store,
                   inflight, tickCount, failedTicks, lastEvaluation>>

Next ==
    \/ Mount
    \/ AuthSignedIn
    \/ AuthFailed
    \/ Tick
    \/ AppendSucceeds
    \/ AppendFails
    \/ SnapshotDelivered
    \/ SnapshotError
    \/ Unmount

Spec == Init /\ [][Next]_vars

\* ---- the evaluator alone, on snapshots around the thresholds ----
EvalWasteVolumes == {0, 500, 799, 800, 801, 805, 810, 814, 815, 1000}

EvalTrafficDensities == {0, 400, 749, 750, 751, 1000}

InitEval ==
    /\ phase = "rendered"
    /\ firebaseConfig = "present"
    /\ db = FALSE
    /\ authState = "none"
    /\ userId = "null"
    /\ isAuthReady = FALSE
    /\ \E w \in EvalWasteVolumes, t \in EvalTrafficDensities :
        governanceData = [wasteVolume |-> w, trafficDensity |-> t]
    /\ incidents = <<>>
    /\ systemStatus = "Initializing..."
    /\ isSimulationRunning = FALSE
    /\ subscription = "none"
    /\ snapshot = [delivered |-> FALSE, docs |-> <<>>]
    /\ timer = NoTimer
    /\ intervals = {}
    /\ store = <<>>
    /\ inflight = {}
    /\ tickCount = 0
    /\ failedTicks = {}
    /\ lastEvaluation = [tick |-> 0, isOverallCompliant |-> TRUE, incidents |-> <<>>]

\* checkCompliance(newData) as runDigitalScan calls it, on the snapshot at hand
Evaluate ==
    /\ lastEvaluation.tick = 0
    /\ LET result == checkCompliance(governanceData)
       IN lastEvaluation' = [tick |-> 1,
                             isOverallCompliant |-> result.isOverallCompliant,
                             incidents |-> result.incidents]
    /\ UNCHANGED <<phase, firebaseConfig, db, authState, userId, isAuthReady, governanceData,
                   incidents, systemStatus, isSimulationRunning, subscription, snapshot,
                   timer, intervals, store, inflight, tickCount, failedTicks>>

EvalSpec == InitEval /\ [][Evaluate]_vars

\* ---- properties ----
ScanTicksInFlight == {seq.tick : seq \in inflight}

\* C1: no state has the append sequences of two different ticks in flight at once
\* (a tick fired while an earlier tick's appends are pending is skipped or queued).
AppendSequencesSerialized == Cardinality(ScanTicksInFlight) <= 1

HasResolvedTimestamp(data) == "timestamp" \in DOMAIN data /\ data.timestamp.resolved

LatestInstant == CHOOSE m \in Instants : \A t \in Instants : t <= m

\* the instant a record is to be ordered by: its persistence instant, or "now"
\* (later than every persisted instant) while it is not resolved
NormalizedInstant(data) ==
    IF HasResolvedTimestamp(data) THEN data.timestamp.time ELSE LatestInstant + 1

\* C2: after every delivery the feed is ordered by non-increasing normalized
\* persistence timestamp, most recent record first.
FeedSortedDescending ==
    \A i, j \in 1..Len(incidents) :
        i < j => NormalizedInstant(incidents[i].data) >= NormalizedInstant(incidents[j].data)

\* C3: once an append of a tick has failed, and while the component is mounted (the
\* scheduler stays running), the timer can still fire the next tick.
ScanLoopSurvivesAppendFailure ==
    (failedTicks # {} /\ phase = "mounted" /\ tickCount < MaxTicks) => ENABLED Tick

\* C3 witness: the first draft of a two-draft tick failed and a later tick has
\* appended a document of its own.
LaterTickAppendsAfterFailure ==
    \E f \in failedTicks :
        /\ Len(f.drafts) = 2
        /\ \E i \in 1..Len(store) : store[i].by > f.tick

\* C4: wasteVolume and trafficDensity of the current snapshot are within [0,1].
SnapshotWithinUnitRange ==
    /\ governanceData.wasteVolume >= 0 /\ governanceData.wasteVolume <= 1000
    /\ governanceData.trafficDensity >= 0 /\ governanceData.trafficDensity <= 1000

\* C5: every record a scan tick appended carries a persistence timestamp, and
\* every such record read back through the feed shows one.
ScanRecordsCarryTimestamp ==
    /\ \A i \in 1..Len(store) : store[i].by > 0 => "timestamp" \in DOMAIN store[i].data
    /\ \A i \in 1..Len(incidents) :
        store[incidents[i].id].by > 0 => incidents[i].timestamp.text # "N/A"

\* C6: every delivered record is kept, and a record whose timestamp is not resolved
\* comes before every record with a resolved timestamp.
UnresolvedRecordsSortFirst ==
    /\ snapshot.delivered => Len(incidents) = Len(snapshot.docs)
    /\ \A i, j \in 1..Len(incidents) :
        (HasResolvedTimestamp(incidents[i].data) /\ ~HasResolvedTimestamp(incidents[j].data))
            => j < i

FeedIds == {incidents[i].id : i \in 1..Len(incidents)}

DeliveredIds == {snapshot.docs[i].id : i \in 1..Len(snapshot.docs)}

\* C7: the feed holds exactly the records of the last delivery, each id once, with
\* the delivered content; before the first delivery it is empty.
FeedIsExactlyLastDelivery ==
    /\ FeedIds = DeliveredIds
    /\ Len(incidents) = Cardinality(DeliveredIds)
    /\ \A i \in 1..Len(incidents) :
        \E k \in 1..Len(snapshot.docs) :
            snapshot.docs[k].id = incidents[i].id /\ snapshot.docs[k].data = incidents[i].data

\* C7 witness: a delivery that holds records of other writers and a record of a scan tick.
FeedRebuiltWithScanRecord ==
    /\ snapshot.delivered
    /\ Len(incidents) >= 3
    /\ \E i \in 1..Len(incidents) : store[incidents[i].id].by > 0
    /\ \E i \in 1..Len(incidents) : store[incidents[i].id].by = 0

\* C8: the step in which the subscription errors sets the status to DB Error and
\* leaves the feed as it was.
SubscriptionErrorKeepsFeed ==
    [][(subscription = "active" /\ subscription' = "errored")
        => (systemStatus' = "DB Error" /\ incidents' = incidents)]_vars

\* C8 witness: the subscription has errored and the feed still holds the records
\* delivered before.
ErroredWithFeedRetained ==
    /\ subscription = "errored"
    /\ systemStatus = "DB Error"
    /\ Len(incidents) >= 2

\* C9: while the subscription is broken the status is DB Error.
StoreErrorPersists == subscription = "errored" => systemStatus = "DB Error"

\* C10: an evaluated snapshot with wasteVolume <= 0.8 and trafficDensity <= 0.75 is
\* compliant and yields no draft.
CompliantAtOrBelowThresholds ==
    (lastEvaluation.tick > 0 /\ governanceData.wasteVolume <= 800
        /\ governanceData.trafficDensity <= 750)
        => (lastEvaluation.isOverallCompliant /\ lastEvaluation.incidents = <<>>)

\* C10 witness: the snapshot exactly at both thresholds has been evaluated as compliant.
BoundarySnapshotEvaluated ==
    /\ lastEvaluation.tick > 0
    /\ governanceData.wasteVolume = 800
    /\ governanceData.trafficDensity = 750
    /\ lastEvaluation.isOverallCompliant

WasteDrafts(drafts) == {i \in 1..Len(drafts) : drafts[i].type = "Sampah"}

\* C11 as stated: an evaluated snapshot with wasteVolume = 0.81 yields exactly one
\* draft, of type waste, with 81 in its description, whatever its trafficDensity.
ExactlyOneDraftAt81 ==
    (lastEvaluation.tick > 0 /\ governanceData.wasteVolume = 810)
        => /\ Len(lastEvaluation.incidents) = 1
           /\ lastEvaluation.incidents[1].type = "Sampah"
           /\ lastEvaluation.incidents[1].description = 81

\* C11 amended: an evaluated snapshot with wasteVolume = 0.81 yields exactly one
\* draft of type waste, the first of the list, with 81 in its description; it is the
\* only draft when trafficDensity <= 0.75 and is followed by one traffic draft otherwise.
OneWasteDraftAt81 ==
    (lastEvaluation.tick > 0 /\ governanceData.wasteVolume = 810)
        => /\ WasteDrafts(lastEvaluation.incidents) = {1}
           /\ lastEvaluation.incidents[1].description = 81
           /\ Len(lastEvaluation.incidents) = IF governanceData.trafficDensity <= 750 THEN 1 ELSE 2
           /\ Len(lastEvaluation.incidents) = 2 => lastEvaluation.incidents[2].type = "Lalu Lintas"

\* C11 witness: wasteVolume 0.81 evaluated together with a critical trafficDensity.
WasteAt81WithCriticalTraffic ==
    /\ lastEvaluation.tick > 0
    /\ governanceData.wasteVolume = 810
    /\ governanceData.trafficDensity > 750
    /\ Len(lastEvaluation.incidents) = 2

\* C12: the status is Komplian Penuh only when the last evaluation was compliant and
\* the feed is empty; with a compliant evaluation and a non-empty feed it is Memantau.
FullyCompliantOnlyWithEmptyFeed ==
    /\ systemStatus = "Komplian Penuh"
        => (lastEvaluation.tick > 0 /\ lastEvaluation.isOverallCompliant /\ Len(incidents) = 0)
    /\ (lastEvaluation.tick > 0 /\ lastEvaluation.isOverallCompliant /\ Len(incidents) > 0
            /\ systemStatus # "DB Error")
        => systemStatus = "Memantau"

CollaboratorsReady == isAuthReady /\ incidentCollectionRef

\* C13: once identity and store binding are ready, and until the first delivery,
\* the status is Memuat Database... (or DB Error), never a scan or monitoring status.
WaitingForStoreUntilFirstDelivery ==
    (CollaboratorsReady /\ ~snapshot.delivered)
        => systemStatus \in {"Memuat Database...", "DB Error"}

\* C14: while identity and store binding are not ready the status is Initializing...
InitializingUntilReady == ~CollaboratorsReady => systemStatus = "Initializing..."

\* C15: after the unmount no tick starts; the unmount step leaves the appends in
\* flight alone, and afterwards each of them ends only by resolving or rejecting.
StopEndsTicksNotAppends ==
    [][/\ phase = "unmounted"
          => (tickCount' = tickCount /\ governanceData' = governanceData
              /\ lastEvaluation' = lastEvaluation)
       /\ (phase = "mounted" /\ phase' = "unmounted") => inflight' = inflight
       /\ (phase = "unmounted" /\ inflight' # inflight)
          => (Len(store') = Len(store) + 1 \/ failedTicks' # failedTicks)]_vars

\* C15 witness: the component is unmounted while an append sequence is in flight.
StoppedWithAppendInFlight == phase = "unmounted" /\ inflight # {} /\ intervals = {}

StoredBy(n) == SelectSeq(store, LAMBDA d : d.by = n)

PendingOf(n) ==
    IF \E seq \in inflight : seq.tick = n
    THEN (CHOOSE seq \in inflight : seq.tick = n).drafts
    ELSE <<>>

AbandonedOf(n) ==
    IF \E seq \in failedTicks : seq.tick = n
    THEN (CHOOSE seq \in failedTicks : seq.tick = n).drafts
    ELSE <<>>

\* the drafts of tick n: those stored, then those awaited or abandoned
DraftTypesOf(n) ==
    LET stored == StoredBy(n)
        rest == PendingOf(n) \o AbandonedOf(n)
    IN [i \in 1..Len(stored) |-> stored[i].data.type] \o [i \in 1..Len(rest) |-> rest[i].type]

RuleOrders == {<<>>, <<"Sampah">>, <<"Lalu Lintas">>, <<"Sampah", "Lalu Lintas">>}

\* C16: the documents a tick has stored are a prefix of its draft list in rule order,
\* each draft at most once, and a tick whose append failed has nothing more in flight.
AppendsFormPrefixInRuleOrder ==
    \A n \in 1..tickCount :
        /\ Cardinality({seq \in inflight : seq.tick = n}) <= 1
        /\ Cardinality({seq \in failedTicks : seq.tick = n}) <= 1
        /\ ~(PendingOf(n) # <<>> /\ AbandonedOf(n) # <<>>)
        /\ DraftTypesOf(n) \in RuleOrders
        /\ n = lastEvaluation.tick
            => DraftTypesOf(n) = [i \in 1..Len(lastEvaluation.incidents) |->
                                     lastEvaluation.incidents[i].type]

\* C16 witness: a two-draft tick stored its waste draft and its traffic append failed.
SecondDraftAbandoned ==
    \E f \in failedTicks :
        /\ Len(f.drafts) = 1
        /\ Len(StoredBy(f.tick)) = 1
        /\ StoredBy(f.tick)[1].data.type = "Sampah"
        /\ f.drafts[1].type = "Lalu Lintas"

\* C17: while identity and store binding are not ready no interval is armed, the
\* simulation is not running, and no tick has derived a snapshot, set a scan status
\* or issued an append.
NoScanBeforeReady ==
    ~CollaboratorsReady
        => /\ intervals = {}
           /\ ~isSimulationRunning
           /\ tickCount = 0
           /\ lastEvaluation.tick = 0
           /\ governanceData = InitialGovernanceData
           /\ inflight = {}
           /\ systemStatus \in {"Initializing...", "Memuat Database..."}
           /\ \A i \in 1..Len(store) : store[i].by = 0

\* C17 witness: the effects have run with the sign-in failed, and nothing is armed.
MountedWithoutIdentity ==
    phase = "mounted" /\ authState = "failed" /\ db /\ ~CollaboratorsReady /\ intervals = {}

\* C18: at most one scan interval is armed.
AtMostOneIntervalArmed == Cardinality(intervals) <= 1

\* C18 witness: the interval has been registered again after two ticks, and one is armed.
RearmedAfterTicks ==
    tickCount >= 2 /\ Cardinality(intervals) = 1 /\ timer.data # InitialGovernanceData

\* C19: every tick derives its snapshot from the snapshot the previous tick produced.
TickDerivesFromLatestSnapshot ==
    [][tickCount' = tickCount + 1
        => \E dw \in WasteDeltas, dt \in TrafficDeltas :
              governanceData' = NextGovernanceData(governanceData, dw, dt)]_vars

\* C19 witness: a tick has run while the appends of an earlier tick were pending.
TickRanDuringEarlierAppends == \E seq \in inflight : seq.tick < tickCount

\* C20: unless the subscription has errored, the status is Insiden Terdeteksi after a
\* tick with drafts and Komplian Penuh after a tick without; and after a tick without
\* drafts, once every append is done (none failed) and the delivery is up to date, the
\* feed holds exactly the stored records, none of them from that tick.
CompliantTickKeepsEarlierRecords ==
    /\ (lastEvaluation.tick > 0 /\ systemStatus # "DB Error")
        => systemStatus = (IF lastEvaluation.incidents # <<>>
                           THEN "Insiden Terdeteksi" ELSE "Komplian Penuh")
    /\ (lastEvaluation.tick > 0 /\ lastEvaluation.incidents = <<>> /\ inflight = {}
            /\ failedTicks = {} /\ snapshot.delivered /\ snapshot.docs = store)
        => /\ Len(incidents) = Len(store)
           /\ FeedIds = {store[i].id : i \in 1..Len(store)}
           /\ \A i \in 1..Len(incidents) : store[incidents[i].id].by # lastEvaluation.tick

\* C20 witness: a tick stored one waste record, the next tick was compliant, and the
\* feed delivered afterwards holds exactly that record with the status Komplian Penuh.
IncidentThenCompliantTick ==
    /\ lastEvaluation.tick >= 2
    /\ lastEvaluation.incidents = <<>>
    /\ systemStatus = "Komplian Penuh"
    /\ snapshot.docs = store
    /\ Len(incidents) = 1
    /\ store[incidents[1].id].by = lastEvaluation.tick - 1
    /\ incidents[1].data.type = "Sampah"

====
